---- MODULE Spec2Model ----
(***************************************************************************)
(* Document service of the MCA application processing system: the Document *)
(* record and its mutators (models/document.py), the classifier and the    *)
(* OCR processor (services/), and the upload handler with its processing   *)
(* pipeline (controllers/document_controller.py).                          *)
(*                                                                         *)
(* Conventions.  A Python dict is a function whose DOMAIN is its key set;  *)
(* None is the string "None"; a str is a sequence of one-character         *)
(* strings; a classifier probability is counted in hundredths (85 is       *)
(* 0.85), an OCR confidence in percent; datetime.utcnow() reads the clock  *)
(* `now`.  A method that may raise is an operator returning the record     *)
(* [doc, exc]: the Document after the call and the exception raised        *)
(* (NoExc when it returns).  Logging never raises and is not modelled.     *)
(* Call sites are bound to the callee's body: the content argument of      *)
(* process_document is the stored object of the document.                  *)
(***************************************************************************)
EXTENDS Integers, Sequences, FiniteSets, TLC

VARIABLES
    docs,      \* the Document objects, by creation order
    s3,        \* the storage bucket: storage path -> stored content
    task,      \* per document: position and locals of its _process_document run
    caller,    \* per document: what the caller of handle_upload has observed
    trace,     \* per document: the processing_status values written, in order
    last,      \* the last call made on a Document: operation, argument, outcome
    now        \* the clock read by datetime.utcnow()

vars == <<docs, s3, task, caller, trace, last, now>>

\* ------------------------------------------------------------------ bounds
MaxDocs == 2
MaxClock == 2

\* ------------------------------------------------------------ basic values
None == "None"
EmptyDict == [k \in {} |-> 0]
Range(s) == {s[i] : i \in DOMAIN s}

Exc(type, msg) == [type |-> type, msg |-> msg]
NoExc == Exc("None", "")

\* models/document.py
DOCUMENT_TYPES ==
    <<"ISO_APPLICATION", "BANK_STATEMENT", "VOIDED_CHECK", "BUSINESS_LICENSE", "TAX_RETURN">>
PROCESSING_STATUSES == <<"PENDING", "PROCESSING", "COMPLETED", "FAILED">>

\* a storage key that does not carry the document id
StoragePath_shared(id) == "documents/upload"

\* documents/{year}/{month}/{day}/{id}-{file_name}
StoragePath(id) == "documents/" \o ToString(id)

\* ---------------------------------------------------------------- Document
\* The descriptive fields no operation reads or writes after construction
\* (application_id, file_name, file_type, file_size, created_by, updated_by)
\* are left out of the record.
Document__init__(id, mime_type, t) ==
    [ id                    |-> id,
      mime_type             |-> mime_type,
      storage_path          |-> None,
      document_type         |-> None,
      processing_status     |-> "PENDING",
      metadata              |-> EmptyDict,
      classification_result |-> None,
      ocr_result            |-> EmptyDict,
      created_at            |-> t,
      updated_at            |-> t ]

\* put_ok: whether the bucket accepted the object
upload_to_storage(doc, put_ok, t) ==
    IF ~put_ok
    THEN [doc |-> doc, exc |-> Exc("ClientError", "put_object failed")]
    ELSE [doc |-> [doc EXCEPT !.storage_path = StoragePath(doc.id), !.updated_at = t],
          exc |-> NoExc]

update_processing_status_unguarded(doc, status, result_data, t) ==
    [doc |-> [doc EXCEPT !.processing_status = status,
                         !.metadata = result_data @@ @,
                         !.updated_at = t],
     exc |-> IF status \in Range(PROCESSING_STATUSES) THEN NoExc
             ELSE Exc("ValueError", "Invalid processing status")]

update_processing_status(doc, status, result_data, t) ==
    IF status \notin Range(PROCESSING_STATUSES)
    THEN [doc |-> doc, exc |-> Exc("ValueError", "Invalid processing status")]
    ELSE [doc |-> [doc EXCEPT !.processing_status = status,
                              !.metadata = result_data @@ @,
                              !.updated_at = t],
          exc |-> NoExc]

set_classification_unguarded(doc, document_type, classification_metadata, t) ==
    [doc |-> [doc EXCEPT !.document_type = document_type,
                         !.classification_result = document_type,
                         !.metadata = ("classification" :> classification_metadata) @@ @,
                         !.updated_at = t],
     exc |-> NoExc]

\* the timestamp taken at construction is written again
set_classification_stale_stamp(doc, document_type, classification_metadata, t) ==
    IF document_type \notin Range(DOCUMENT_TYPES)
    THEN [doc |-> doc, exc |-> Exc("ValueError", "Invalid document type")]
    ELSE [doc |-> [doc EXCEPT !.document_type = document_type,
                              !.classification_result = document_type,
                              !.metadata = ("classification" :> classification_metadata) @@ @,
                              !.updated_at = doc.created_at],
          exc |-> NoExc]

set_classification(doc, document_type, classification_metadata, t) ==
    IF document_type \notin Range(DOCUMENT_TYPES)
    THEN [doc |-> doc, exc |-> Exc("ValueError", "Invalid document type")]
    ELSE [doc |-> [doc EXCEPT !.document_type = document_type,
                              !.classification_result = document_type,
                              !.metadata = ("classification" :> classification_metadata) @@ @,
                              !.updated_at = t],
          exc |-> NoExc]

required_fields == {"text", "confidence", "processing_time"}

store_ocr_result_partial_check(doc, ocr_data, t) ==
    IF ~({"text", "processing_time"} \subseteq DOMAIN ocr_data)
    THEN [doc |-> doc, exc |-> Exc("ValueError", "OCR data missing required fields")]
    ELSE IF "confidence" \notin DOMAIN ocr_data
    THEN [doc |-> [doc EXCEPT !.ocr_result = ocr_data], exc |-> Exc("KeyError", "confidence")]
    ELSE [doc |-> [doc EXCEPT !.ocr_result = ocr_data,
                              !.metadata = ("ocr_processing" :>
                                  [timestamp  |-> t,
                                   duration   |-> ocr_data.processing_time,
                                   confidence |-> ocr_data.confidence]) @@ @,
                              !.updated_at = t],
          exc |-> NoExc]

store_ocr_result(doc, ocr_data, t) ==
    IF ~(\A field \in required_fields : field \in DOMAIN ocr_data)
    THEN [doc |-> doc, exc |-> Exc("ValueError", "OCR data missing required fields")]
    ELSE [doc |-> [doc EXCEPT !.ocr_result = ocr_data,
                              !.metadata = ("ocr_processing" :>
                                  [timestamp  |-> t,
                                   duration   |-> ocr_data.processing_time,
                                   confidence |-> ocr_data.confidence]) @@ @,
                              !.updated_at = t],
          exc |-> NoExc]

\* ------------------------------------------------------------- arithmetic
\* A Python float is an exact fraction [n, d] in lowest terms, d > 0.
RECURSIVE GCD(_, _)
GCD(a, b) == IF b = 0 THEN a ELSE GCD(b, a % b)

Rat(n, d) ==
    LET g == GCD(IF n < 0 THEN -n ELSE n, d)
    IN  IF n = 0 THEN [n |-> 0, d |-> 1] ELSE [n |-> n \div g, d |-> d \div g]
Num(k) == Rat(k, 1)
RatAdd(a, b) == Rat(a.n * b.d + b.n * a.d, a.d * b.d)
RatSub(a, b) == Rat(a.n * b.d - b.n * a.d, a.d * b.d)
RatMul(a, b) == Rat(a.n * b.n, a.d * b.d)
RatDivInt(a, k) == Rat(a.n, a.d * k)
RatLeq(a, b) == a.n * b.d <= b.n * a.d
RatLt(a, b) == a.n * b.d < b.n * a.d

RECURSIVE RatSum(_)
RatSum(s) == IF s = <<>> THEN Num(0) ELSE RatAdd(Head(s), RatSum(Tail(s)))

\* ----------------------------------------------------------------- strings
RECURSIVE Join(_, _)
\* sep.join(parts)
Join(sep, parts) ==
    IF parts = <<>> THEN <<>>
    ELSE IF Len(parts) = 1 THEN parts[1]
    ELSE parts[1] \o sep \o Join(sep, Tail(parts))

SP == " "
NL == "\n"

\* ------------------------------------------------------- uploaded contents
\* An uploaded object: the type python-magic detects, the mime type the client
\* declared, whether PyPDF2 can read it, the text layer of each page.
TEXT_ISO == <<"B","u","s","i","n","e","s","s",SP,"N","a","m","e",":",SP,"A","c","m","e">>
TEXT_P2 == <<"E","I","N",":",SP,"1","2","-","3","4","5","6","7","8","9">>

PDF_TEXT ==
    [magic |-> "application/pdf", mime |-> "application/pdf", readable |-> TRUE,
     pages |-> <<TEXT_ISO>>]
PDF_TWO_PAGES ==
    [magic |-> "application/pdf", mime |-> "application/pdf", readable |-> TRUE,
     pages |-> <<TEXT_ISO, TEXT_P2>>]
PDF_NO_TEXT_LAYER ==
    [magic |-> "application/pdf", mime |-> "application/pdf", readable |-> TRUE,
     pages |-> << <<>> >>]
PDF_TWO_BLANK_PAGES ==
    [magic |-> "application/pdf", mime |-> "application/pdf", readable |-> TRUE,
     pages |-> << <<>>, <<>> >>]
PDF_CORRUPT ==
    [magic |-> "application/pdf", mime |-> "application/pdf", readable |-> FALSE,
     pages |-> <<>>]
IMAGE_PNG ==
    [magic |-> "image/png", mime |-> "image/png", readable |-> TRUE, pages |-> << <<>> >>]
TEXT_PLAIN ==
    [magic |-> "text/plain", mime |-> "text/plain", readable |-> TRUE, pages |-> << <<>> >>]

\* ------------------------------------------------------ DocumentClassifier
\* services/classification_service.py
CONFIDENCE_THRESHOLD == 85

\* file_type.startswith('image/'), over the types python-magic reports here
IsImageType(file_type) == file_type \in {"image/png", "image/jpeg", "image/tiff"}

\* get_ok: whether the bucket serves the download.  Result: [text, exc,
\* temp_files]; temp_files: how many of the files the call created with
\* NamedTemporaryFile(delete=False) exist when it returns or raises.  The
\* download runs inside the with block, before the try whose finally clause
\* unlinks the file.
extract_text(document, bucket, get_ok) ==
    IF ~get_ok \/ document.storage_path \notin DOMAIN bucket
    THEN [text |-> <<>>, exc |-> Exc("ClientError", "Failed to download"), temp_files |-> 1]
    ELSE LET content == bucket[document.storage_path]
             file_type == content.magic
         IN  IF file_type = "application/pdf"
             THEN IF ~content.readable
                  THEN [text |-> <<>>, exc |-> Exc("PdfReadError", "EOF marker not found"),
                        temp_files |-> 0]
                  ELSE [text |-> Join(<<SP>>, content.pages), exc |-> NoExc, temp_files |-> 0]
             ELSE IF IsImageType(file_type)
             THEN [text |-> <<>>,
                   exc |-> Exc("ValueError", "Image-based document extraction not implemented"),
                   temp_files |-> 0]
             ELSE [text |-> <<>>, exc |-> Exc("ValueError", "Unsupported file type"),
                   temp_files |-> 0]

\* the first class, whatever the probabilities
argmax_position_zero(probs) == 0

\* np.argmax over the (1, n) probability row: the first position of the maximum,
\* counted from 0.
argmax(probs) ==
    CHOOSE i \in 0 .. Len(probs) - 1 :
        /\ \A j \in 0 .. Len(probs) - 1 : probs[j + 1] <= probs[i + 1]
        /\ \A j \in 0 .. i - 1 : probs[j + 1] < probs[i + 1]

ClassificationMetadata(confidence_score) ==
    [confidence |-> confidence_score, processing_time |-> "real-time",
     method |-> "machine_learning", model_version |-> "1.0"]

\* prediction: [ok, probs], what model.predict_proba does on the features.
\* Result: [doc, exc, predicted_type, confidence].
classify_document_strict_threshold(document, bucket, get_ok, prediction, t) ==
    LET ex == extract_text(document, bucket, get_ok)
        raised(e) == [doc |-> document, exc |-> e, predicted_type |-> None, confidence |-> -1]
    IN  IF ex.exc # NoExc THEN raised(ex.exc)
        ELSE IF ex.text = <<>> THEN raised(Exc("ValueError", "No text content extracted"))
        ELSE IF ~prediction.ok THEN raised(Exc("NotFittedError", "model is not fitted"))
        ELSE LET idx == argmax(prediction.probs)
                 conf == prediction.probs[idx + 1]
                 ptype == DOCUMENT_TYPES[idx + 1]
                 set == set_classification(document, ptype, ClassificationMetadata(conf), t)
             IN  IF conf > CONFIDENCE_THRESHOLD
                 THEN [doc |-> set.doc, exc |-> set.exc, predicted_type |-> ptype,
                       confidence |-> conf]
                 ELSE [doc |-> document, exc |-> NoExc, predicted_type |-> ptype,
                       confidence |-> conf]

\* the except clause notes the failure on the Document before re-raising
classify_document_notes_failure(document, bucket, get_ok, prediction, t) ==
    LET ex == extract_text(document, bucket, get_ok)
        raised(e) == [doc |-> [document EXCEPT !.metadata =
                                   ("classification_error" :> e.msg) @@ @],
                      exc |-> e, predicted_type |-> None, confidence |-> -1]
    IN  IF ex.exc # NoExc THEN raised(ex.exc)
        ELSE IF ex.text = <<>> THEN raised(Exc("ValueError", "No text content extracted"))
        ELSE IF ~prediction.ok THEN raised(Exc("NotFittedError", "model is not fitted"))
        ELSE LET idx == argmax(prediction.probs)
                 conf == prediction.probs[idx + 1]
                 ptype == DOCUMENT_TYPES[idx + 1]
                 set == set_classification(document, ptype, ClassificationMetadata(conf), t)
             IN  IF conf >= CONFIDENCE_THRESHOLD
                 THEN IF set.exc # NoExc THEN raised(set.exc)
                      ELSE [doc |-> set.doc, exc |-> NoExc, predicted_type |-> ptype,
                            confidence |-> conf]
                 ELSE [doc |-> document, exc |-> NoExc, predicted_type |-> ptype,
                       confidence |-> conf]

classify_document(document, bucket, get_ok, prediction, t) ==
    LET ex == extract_text(document, bucket, get_ok)
        raised(e) == [doc |-> document, exc |-> e, predicted_type |-> None, confidence |-> -1]
    IN  IF ex.exc # NoExc THEN raised(ex.exc)
        ELSE IF ex.text = <<>> THEN raised(Exc("ValueError", "No text content extracted"))
        ELSE IF ~prediction.ok THEN raised(Exc("NotFittedError", "model is not fitted"))
        ELSE LET idx == argmax(prediction.probs)
                 conf == prediction.probs[idx + 1]
                 ptype == DOCUMENT_TYPES[idx + 1]
                 set == set_classification(document, ptype, ClassificationMetadata(conf), t)
             IN  IF conf >= CONFIDENCE_THRESHOLD
                 THEN IF set.exc # NoExc THEN raised(set.exc)
                      ELSE [doc |-> set.doc, exc |-> NoExc, predicted_type |-> ptype,
                            confidence |-> conf]
                 ELSE [doc |-> document, exc |-> NoExc, predicted_type |-> ptype,
                       confidence |-> conf]

\* ------------------------------------------------------------ OCRProcessor
\* services/ocr_service.py
OCR_SETTINGS == [dpi |-> 300, language |-> "eng", psm |-> 3, oem |-> 3]

IsSpace(c) == c \in {SP, NL, "\t", "\r"}
\* text.strip() is non-empty
StripNonEmpty(text) == \E i \in DOMAIN text : ~IsSpace(text[i])

\* One row of the engine's word-level report: column 10 (conf, -1 when the
\* engine has none) and column 11 (text).
RowConf(row) == IF row.conf # -1 THEN Num(row.conf) ELSE Num(0)
RowKept(row) == StripNonEmpty(row.text) /\ RatLt(Num(0), RowConf(row))

RECURSIVE KeptRows(_)
KeptRows(rows) ==
    IF rows = <<>> THEN <<>>
    ELSE IF RowKept(Head(rows)) THEN <<Head(rows)>> \o KeptRows(Tail(rows))
    ELSE KeptRows(Tail(rows))

Mean(values) == RatDivInt(RatSum(values), Len(values))

\* a page on which the engine fails is skipped
RECURSIVE PageLoop_skip_failed_page(_, _, _, _, _)
PageLoop_skip_failed_page(reports, idx, results, confidence_scores, avg_bound) ==
    IF idx > Len(reports)
    THEN [exc |-> NoExc, results |-> results, confidence_scores |-> confidence_scores]
    ELSE LET kept == IF reports[idx].ok THEN KeptRows(reports[idx].rows) ELSE <<>>
             page_text == [i \in DOMAIN kept |-> kept[i].text]
             page_confidence == [i \in DOMAIN kept |-> RowConf(kept[i])]
             has == page_confidence # <<>>
         IN  IF reports[idx].ok /\ ~has /\ ~avg_bound
             THEN [exc |-> Exc("UnboundLocalError", "avg_confidence referenced before assignment"),
                   results |-> results, confidence_scores |-> confidence_scores]
             ELSE PageLoop_skip_failed_page(reports, idx + 1,
                           IF has THEN Append(results, Join(<<NL>>, page_text)) ELSE results,
                           IF has THEN Append(confidence_scores, Mean(page_confidence))
                                  ELSE confidence_scores,
                           avg_bound \/ has)

\* The page loop of process_document from page idx on.  reports[idx] is what the
\* engine returns for page idx: [ok, rows].  avg_bound: whether the local
\* avg_confidence has been assigned; the per-page log line reads it.
RECURSIVE PageLoop(_, _, _, _, _)
PageLoop(reports, idx, results, confidence_scores, avg_bound) ==
    IF idx > Len(reports)
    THEN [exc |-> NoExc, results |-> results, confidence_scores |-> confidence_scores]
    ELSE IF ~reports[idx].ok
    THEN [exc |-> Exc("TesseractError", "engine invocation failed"),
          results |-> results, confidence_scores |-> confidence_scores]
    ELSE LET kept == KeptRows(reports[idx].rows)
             page_text == [i \in DOMAIN kept |-> kept[i].text]
             page_confidence == [i \in DOMAIN kept |-> RowConf(kept[i])]
             has == page_confidence # <<>>
         IN  IF ~has /\ ~avg_bound
             THEN [exc |-> Exc("UnboundLocalError", "avg_confidence referenced before assignment"),
                   results |-> results, confidence_scores |-> confidence_scores]
             ELSE PageLoop(reports, idx + 1,
                           IF has THEN Append(results, Join(<<NL>>, page_text)) ELSE results,
                           IF has THEN Append(confidence_scores, Mean(page_confidence))
                                  ELSE confidence_scores,
                           TRUE)

\* Result: [ok, metrics]
validate_results(ocr_results) ==
    LET min_confidence == Num(99)
        max_processing_time == Num(300)
        min_text_length == 50
        max_error_rate == Rat(1, 100)
        metrics == [confidence      |-> ocr_results.confidence,
                    processing_time |-> ocr_results.processing_time,
                    text_length     |-> Len(ocr_results.text),
                    error_rate      |-> RatSub(Num(100), ocr_results.confidence)]
    IN  [ok |-> /\ RatLeq(min_confidence, metrics.confidence)
                /\ RatLeq(Num(metrics.processing_time), max_processing_time)
                /\ metrics.text_length >= min_text_length
                /\ RatLeq(metrics.error_rate, max_error_rate),
         metrics |-> metrics]

\* the result is returned without being stored on the Document
process_document_without_store(document, content, reports, elapsed, t) ==
    LET raised(e) == [doc |-> document, exc |-> e, ocr_results |-> EmptyDict]
    IN  IF ~content.readable
        THEN raised(Exc("ValueError", "cannot open document content"))
        ELSE
        LET loop == PageLoop(reports, 1, <<>>, <<>>, FALSE)
            overall_confidence ==
                IF loop.confidence_scores # <<>> THEN Mean(loop.confidence_scores) ELSE Num(0)
            ocr_results == [text            |-> Join(<<NL, NL>>, loop.results),
                            confidence      |-> overall_confidence,
                            processing_time |-> elapsed,
                            pages_processed |-> Len(reports),
                            metadata        |-> OCR_SETTINGS]
        IN  IF loop.exc # NoExc THEN raised(loop.exc)
            ELSE [doc |-> document, exc |-> NoExc, ocr_results |-> ocr_results]

\* content: the document's bytes; reports: the engine's answer per page image;
\* elapsed: time.time() - start_time.  Result: [doc, exc, ocr_results].
process_document(document, content, reports, elapsed, t) ==
    LET raised(e) == [doc |-> document, exc |-> e, ocr_results |-> EmptyDict]
    IN  IF ~content.readable
        THEN raised(Exc("ValueError", "cannot open document content"))
        ELSE
        LET loop == PageLoop(reports, 1, <<>>, <<>>, FALSE)
            overall_confidence ==
                IF loop.confidence_scores # <<>> THEN Mean(loop.confidence_scores) ELSE Num(0)
            ocr_results == [text            |-> Join(<<NL, NL>>, loop.results),
                            confidence      |-> overall_confidence,
                            processing_time |-> elapsed,
                            pages_processed |-> Len(reports),
                            metadata        |-> OCR_SETTINGS]
            stored == store_ocr_result(document, ocr_results, t)
        IN  IF loop.exc # NoExc THEN raised(loop.exc)
            ELSE IF stored.exc # NoExc THEN raised(stored.exc)
            ELSE [doc |-> stored.doc, exc |-> NoExc, ocr_results |-> ocr_results]

\* ---------------------------------------------------------- re.search
\* A pattern is a sequence of items [cls, min, max] (one character class with
\* its quantifier, max = -1 for unbounded) and the items gs..ge of its capture
\* group.  Quantifiers are greedy and backtrack, as in Python's re; the classes
\* are matched under re.IGNORECASE.
LowerOf ==
    ("A" :> "a") @@ ("B" :> "b") @@ ("C" :> "c") @@ ("D" :> "d") @@ ("E" :> "e") @@
    ("F" :> "f") @@ ("G" :> "g") @@ ("H" :> "h") @@ ("I" :> "i") @@ ("J" :> "j") @@
    ("K" :> "k") @@ ("L" :> "l") @@ ("M" :> "m") @@ ("N" :> "n") @@ ("O" :> "o") @@
    ("P" :> "p") @@ ("Q" :> "q") @@ ("R" :> "r") @@ ("S" :> "s") @@ ("T" :> "t") @@
    ("U" :> "u") @@ ("V" :> "v") @@ ("W" :> "w") @@ ("X" :> "x") @@ ("Y" :> "y") @@
    ("Z" :> "z")
Lower(c) == IF c \in DOMAIN LowerOf THEN LowerOf[c] ELSE c
IsDigit(c) == c \in {"0", "1", "2", "3", "4", "5", "6", "7", "8", "9"}
IsLetter(c) == Lower(c) \in Range(LowerOf)
IsAlnum(c) == IsDigit(c) \/ IsLetter(c)

ClassHas(cls, c) ==
    CASE cls.kind = "lit"      -> Lower(c) = Lower(cls.ch)
      [] cls.kind = "space"    -> IsSpace(c)
      [] cls.kind = "digit"    -> IsDigit(c)
      [] cls.kind = "notnl"    -> c # NL
      [] cls.kind = "notspace" -> ~IsSpace(c)
      [] cls.kind = "digit_or" -> IsDigit(c) \/ c = cls.ch

Cls(kind, ch) == [kind |-> kind, ch |-> ch]
Item(cls, min, max) == [cls |-> cls, min |-> min, max |-> max]
Lit(word) == [i \in DOMAIN word |-> Item(Cls("lit", word[i]), 1, 1)]
Opt(cls) == <<Item(cls, 0, 1)>>
Star(cls) == <<Item(cls, 0, -1)>>
Plus(cls) == <<Item(cls, 1, -1)>>
Times(cls, n) == <<Item(cls, n, n)>>
Spaces == Cls("space", "")
Digits == Cls("digit", "")
Char(ch) == Cls("lit", ch)
\* prefix(group)
Pattern(prefix, group) ==
    [items |-> prefix \o group, gs |-> Len(prefix) + 1, ge |-> Len(prefix) + Len(group)]

RECURSIVE Run(_, _, _, _)
\* how many characters of text from pos on are in cls, at most max of them
Run(cls, text, pos, max) ==
    IF max = 0 \/ pos > Len(text) \/ ~ClassHas(cls, text[pos]) THEN 0
    ELSE 1 + Run(cls, text, pos + 1, max - 1)

RECURSIVE MatchItems(_, _, _, _)
RECURSIVE TryCount(_, _, _, _, _)
\* The positions at which items i.. start and the match ends, for the match
\* the backtracking search finds first; <<>> when there is none.
MatchItems(items, i, text, pos) ==
    IF i > Len(items) THEN <<pos>>
    ELSE TryCount(items, i, text, pos, Run(items[i].cls, text, pos, items[i].max))

TryCount(items, i, text, pos, k) ==
    IF k < items[i].min THEN <<>>
    ELSE LET rest == MatchItems(items, i + 1, text, pos + k)
         IN  IF rest # <<>> THEN <<pos>> \o rest
             ELSE TryCount(items, i, text, pos, k - 1)

\* Result: [matched, group1]
re_search(pattern, text) ==
    LET starts == {p \in 1 .. Len(text) + 1 : MatchItems(pattern.items, 1, text, p) # <<>>}
    IN  IF starts = {} THEN [matched |-> FALSE, group1 |-> <<>>]
        ELSE LET first == CHOOSE p \in starts : \A q \in starts : p <= q
                 at == MatchItems(pattern.items, 1, text, first)
             IN  [matched |-> TRUE,
                  group1 |-> SubSeq(text, at[pattern.gs], at[pattern.ge + 1] - 1)]

RECURSIVE LStrip(_)
LStrip(text) == IF text # <<>> /\ IsSpace(Head(text)) THEN LStrip(Tail(text)) ELSE text
RECURSIVE RStrip(_)
RStrip(text) ==
    IF text # <<>> /\ IsSpace(text[Len(text)]) THEN RStrip(SubSeq(text, 1, Len(text) - 1))
    ELSE text
strip(text) == RStrip(LStrip(text))

\* ------------------------------------------------------- extract_fields
field_patterns ==
    [ ISO_APPLICATION |->
        [ business_name |->
            Pattern(Lit(<<"B","u","s","i","n","e","s","s">>) \o Plus(Spaces)
                        \o Lit(<<"N","a","m","e">>) \o Opt(Char(":")) \o Star(Spaces),
                    Plus(Cls("notnl", ""))),
          ein |->
            Pattern(Lit(<<"E","I","N">>) \o Opt(Char(":")) \o Star(Spaces),
                    Times(Digits, 2) \o Opt(Char("-")) \o Times(Digits, 7)),
          address |->
            Pattern(Lit(<<"A","d","d","r","e","s","s">>) \o Opt(Char(":")) \o Star(Spaces),
                    Plus(Cls("notnl", ""))),
          phone |->
            Pattern(Lit(<<"P","h","o","n","e">>) \o Opt(Char(":")) \o Star(Spaces),
                    Plus(Cls("digit_or", "-"))),
          email |->
            Pattern(Lit(<<"E","m","a","i","l">>) \o Opt(Char(":")) \o Star(Spaces),
                    Plus(Cls("notspace", "")) \o Lit(<<"@">>) \o Plus(Cls("notspace", ""))) ],
      BANK_STATEMENT |->
        [ account_number |->
            Pattern(Lit(<<"A","c","c","o","u","n","t">>) \o Star(Spaces) \o Lit(<<"#">>)
                        \o Opt(Char(":")) \o Star(Spaces),
                    Plus(Digits)),
          balance |->
            Pattern(Lit(<<"B","a","l","a","n","c","e">>) \o Opt(Char(":")) \o Star(Spaces)
                        \o Opt(Char("$")),
                    Plus(Cls("digit_or", ",")) \o Lit(<<".">>) \o Times(Digits, 2)),
          period |->
            Pattern(Lit(<<"S","t","a","t","e","m","e","n","t">>) \o Plus(Spaces)
                        \o Lit(<<"P","e","r","i","o","d">>) \o Opt(Char(":")) \o Star(Spaces),
                    Plus(Cls("notnl", ""))) ] ]

\* round(x, 2) of the exact value, ties to even; the result in hundredths
Round2(x) ==
    LET scaled == x.n * 100
        q == scaled \div x.d
        r2 == 2 * (scaled % x.d)
    IN  Rat(IF r2 > x.d \/ (r2 = x.d /\ q % 2 = 1) THEN q + 1 ELSE q, 100)

_calculate_field_confidence(value, base_confidence) ==
    LET c1 == IF Len(value) < 3 THEN RatMul(base_confidence, Rat(9, 10)) ELSE base_confidence
        c2 == IF \E i \in DOMAIN value : IsDigit(value[i]) THEN RatMul(c1, Rat(95, 100)) ELSE c1
        c3 == IF \E i \in DOMAIN value : ~IsAlnum(value[i]) THEN RatMul(c2, Rat(98, 100)) ELSE c2
    IN  Round2(c3)

\* a document type without patterns has no fields
extract_fields_lenient(document_type, ocr_results) ==
    IF document_type \notin DOMAIN field_patterns
    THEN [exc |-> NoExc, fields |-> EmptyDict]
    ELSE LET patterns == field_patterns[document_type]
             text == ocr_results.text
             found == {f \in DOMAIN patterns : re_search(patterns[f], text).matched}
             value(f) == strip(re_search(patterns[f], text).group1)
         IN  [exc |-> NoExc,
              fields |-> [f \in found |->
                            [value |-> value(f),
                             confidence |->
                                 _calculate_field_confidence(value(f), ocr_results.confidence)]]]

\* the patterns of every document type are searched
extract_fields_all_schemas(document_type, ocr_results) ==
    IF document_type \notin DOMAIN field_patterns
    THEN [exc |-> Exc("ValueError", "Unsupported document type"), fields |-> EmptyDict]
    ELSE LET patterns == field_patterns.ISO_APPLICATION @@ field_patterns.BANK_STATEMENT
             text == ocr_results.text
             found == {f \in DOMAIN patterns : re_search(patterns[f], text).matched}
             value(f) == strip(re_search(patterns[f], text).group1)
         IN  [exc |-> NoExc,
              fields |-> [f \in found |->
                            [value |-> value(f),
                             confidence |->
                                 _calculate_field_confidence(value(f), ocr_results.confidence)]]]

\* Result: [exc, fields]
extract_fields(document_type, ocr_results) ==
    IF document_type \notin DOMAIN field_patterns
    THEN [exc |-> Exc("ValueError", "Unsupported document type"), fields |-> EmptyDict]
    ELSE LET patterns == field_patterns[document_type]
             text == ocr_results.text
             found == {f \in DOMAIN patterns : re_search(patterns[f], text).matched}
             value(f) == strip(re_search(patterns[f], text).group1)
         IN  [exc |-> NoExc,
              fields |-> [f \in found |->
                            [value |-> value(f),
                             confidence |->
                                 _calculate_field_confidence(value(f), ocr_results.confidence)]]]

\* ------------------------------------------------- DocumentController
\* controllers/document_controller.py

\* a gate below the classifier's commit threshold
OCR_GATE_low == 85 - 15

\* The classifier confidence from which _process_document runs recognition
OCR_GATE == 85

\* @background_task @handle_processing_errors of utils/decorators: how the call
\* of _process_document in handle_upload relates to the run of its body.
\* "deferred": the call enqueues the run and returns at once; what the body
\* raises stays with the worker.  "inline": the call returns when the body has
\* ended and raises what the body raises.
background_task_inline == "inline"

background_task == "deferred"

\* One _process_document run: its position, its locals, and a record of what
\* the run was given (the uploaded content, the answers of the bucket, of the
\* model and of the engine), of the clock reading of each of its steps, and of
\* the stages it has entered, in order.
NoInputs ==
    [get_ok |-> TRUE, prediction |-> [ok |-> FALSE, probs |-> <<>>], reports |-> <<>>,
     elapsed |-> 0]
NoTimes == [classified |-> 0, recognized |-> 0, stored |-> 0, ended |-> 0]
NewTask(pc, content, t) ==
    [pc |-> pc, start_time |-> 0, doc_type |-> None, confidence |-> -1,
     ocr_results |-> EmptyDict, extracted_fields |-> EmptyDict, exc |-> NoExc,
     content |-> content, created |-> t, inputs |-> NoInputs, times |-> NoTimes,
     stages |-> <<>>]

NoCall == [op |-> "none", doc |-> 0, arg |-> None, exc |-> NoExc, before |-> EmptyDict]

\* ------------------------------------------------------------ input sets
UploadContents ==
    {PDF_TEXT, PDF_TWO_PAGES, PDF_NO_TEXT_LAYER, PDF_TWO_BLANK_PAGES, IMAGE_PNG}

\* what model.predict_proba returns for the document: a row of probabilities
\* over DOCUMENT_TYPES, or a failure of the model
Predictions ==
    { [ok |-> TRUE,  probs |-> <<70, 10, 10, 5, 5>>],
      [ok |-> TRUE,  probs |-> <<85, 15, 0, 0, 0>>],
      [ok |-> TRUE,  probs |-> <<4, 4, 92, 0, 0>>],
      [ok |-> TRUE,  probs |-> <<0, 40, 20, 40, 0>>],
      [ok |-> FALSE, probs |-> <<>>] }

W_BUSINESS == <<"B","u","s","i","n","e","s","s">>
W_NAME == <<"N","a","m","e",":">>
W_ACME == <<"A","c","m","e">>
W_EIN == <<"E","I","N",":">>
W_NUMBER == <<"1","2","-","3","4","5","6","7","8","9">>
W_CORP == <<"C","o","r","p">>

\* the engine's report of a page reading "Business Name: Acme Corp" on one line
\* and "EIN: 12-3456789" on the next: one row per word, and a row without text
\* for the line
REPORT_SCENARIO_A ==
    [ok |-> TRUE, rows |-> <<[conf |-> -1, text |-> <<>>],
                             [conf |-> 96, text |-> W_BUSINESS],
                             [conf |-> 96, text |-> W_NAME],
                             [conf |-> 96, text |-> W_ACME],
                             [conf |-> 96, text |-> W_CORP],
                             [conf |-> -1, text |-> <<>>],
                             [conf |-> 96, text |-> W_EIN],
                             [conf |-> 96, text |-> W_NUMBER]>>]

\* what the engine reports for one page
PageReports ==
    { [ok |-> TRUE, rows |-> <<[conf |-> 60, text |-> W_BUSINESS],
                               [conf |-> 60, text |-> W_NAME],
                               [conf |-> -1, text |-> <<>>],
                               [conf |-> 60, text |-> W_ACME]>>],
      [ok |-> TRUE, rows |-> <<[conf |-> 90, text |-> W_EIN],
                               [conf |-> 0,  text |-> W_ACME],
                               [conf |-> 95, text |-> <<SP>>],
                               [conf |-> 50, text |-> W_NUMBER]>>],
      REPORT_SCENARIO_A,
      [ok |-> TRUE, rows |-> <<[conf |-> -1, text |-> <<>>]>>],
      [ok |-> FALSE, rows |-> <<>>] }

ElapsedInputs == {2}

\* ---------------------------------------------------------- handle_upload
\* limit: how many uploads the run takes
HandleUpload(limit, content, put_ok) ==
    /\ Len(docs) < limit
    /\ LET id == Len(docs) + 1
           up == upload_to_storage(Document__init__(id, content.mime, now), put_ok, now)
       IN  /\ docs' = Append(docs, up.doc)
           /\ trace' = Append(trace, <<up.doc.processing_status>>)
           /\ IF up.exc # NoExc
              THEN /\ s3' = s3
                   /\ task' = Append(task, NewTask("not_started", content, now))
                   /\ caller' = Append(caller, [state |-> "http500", status |-> None,
                                                exc |-> up.exc])
              ELSE /\ s3' = (up.doc.storage_path :> content) @@ s3
                   /\ task' = Append(task, NewTask("scheduled", content, now))
                   /\ caller' = Append(caller,
                          IF background_task = "deferred"
                          THEN [state |-> "returned", status |-> up.doc.processing_status,
                                exc |-> NoExc]
                          ELSE [state |-> "awaiting", status |-> None, exc |-> NoExc])
    /\ UNCHANGED <<last, now>>

\* ------------------------------------------------------ _process_document
\* lines 191-196
StartProcessing(d) ==
    /\ task[d].pc = "scheduled"
    /\ LET r == update_processing_status(docs[d], "PROCESSING", [started_at |-> now], now)
       IN  /\ docs' = [docs EXCEPT ![d] = r.doc]
           /\ trace' = [trace EXCEPT ![d] = Append(@, r.doc.processing_status)]
           /\ task' = [task EXCEPT ![d].pc = "classify", ![d].start_time = now]
    /\ UNCHANGED <<s3, caller, last, now>>

\* line 199 and the test of line 202
Classify(d, get_ok, prediction) ==
    /\ task[d].pc = "classify"
    /\ LET r == classify_document(docs[d], s3, get_ok, prediction, now)
           ex == extract_text(docs[d], s3, get_ok)
           entered == IF ex.exc = NoExc /\ ex.text # <<>>
                      THEN <<"extract_text", "classify">> ELSE <<"extract_text">>
       IN  /\ docs' = [docs EXCEPT ![d] = r.doc]
           /\ task' = [task EXCEPT ![d] =
                  LET rec == [@ EXCEPT !.inputs.get_ok = get_ok,
                                       !.inputs.prediction = prediction,
                                       !.times.classified = now,
                                       !.stages = @ \o entered]
                  IN  IF r.exc # NoExc
                      THEN [rec EXCEPT !.pc = "except", !.exc = r.exc]
                      ELSE [rec EXCEPT !.pc = IF r.confidence >= OCR_GATE THEN "recognize"
                                              ELSE "complete",
                                       !.doc_type = r.predicted_type,
                                       !.confidence = r.confidence]]
    /\ UNCHANGED <<s3, caller, trace, last, now>>

\* line 203
Recognize(d, reports, elapsed) ==
    /\ task[d].pc = "recognize"
    /\ LET r == process_document(docs[d], s3[docs[d].storage_path], reports, elapsed, now)
       IN  /\ docs' = [docs EXCEPT ![d] = r.doc]
           /\ task' = [task EXCEPT ![d] =
                  LET rec == [@ EXCEPT !.inputs.reports = reports,
                                       !.inputs.elapsed = elapsed,
                                       !.times.recognized = now,
                                       !.stages = @ \o (IF r.exc = NoExc
                                                        THEN <<"recognize", "validate">>
                                                        ELSE <<"recognize">>)]
                  IN  IF r.exc # NoExc
                      THEN [rec EXCEPT !.pc = "except", !.exc = r.exc]
                      ELSE [rec EXCEPT !.pc = "extract_fields",
                                       !.ocr_results = r.ocr_results]]
    /\ UNCHANGED <<s3, caller, trace, last, now>>

\* lines 204-207
ExtractFields(d) ==
    /\ task[d].pc = "extract_fields"
    /\ LET r == extract_fields(task[d].doc_type, task[d].ocr_results)
       IN  task' = [task EXCEPT ![d] =
                  IF r.exc # NoExc
                  THEN [@ EXCEPT !.pc = "except", !.exc = r.exc,
                                 !.stages = Append(@, "extract_fields")]
                  ELSE [@ EXCEPT !.pc = "store_results", !.extracted_fields = r.fields,
                                 !.stages = Append(@, "extract_fields")]]
    /\ UNCHANGED <<docs, s3, caller, trace, last, now>>

\* lines 210-211
StoreResults(d) ==
    /\ task[d].pc = "store_results"
    /\ LET r == store_ocr_result(docs[d], task[d].ocr_results, now)
       IN  IF r.exc # NoExc
           THEN /\ docs' = [docs EXCEPT ![d] = r.doc]
                /\ task' = [task EXCEPT ![d].pc = "except", ![d].exc = r.exc,
                                        ![d].times.stored = now]
           ELSE /\ docs' = [docs EXCEPT ![d] =
                       [r.doc EXCEPT !.metadata =
                           ("extracted_fields" :> task[d].extracted_fields) @@ @]]
                /\ task' = [task EXCEPT ![d].pc = "complete", ![d].times.stored = now]
    /\ UNCHANGED <<s3, caller, trace, last, now>>

\* the run marks the document COMPLETED and then raises inside the try block
Complete_then_raise(d) ==
    /\ task[d].pc = "complete"
    /\ LET r == update_processing_status(docs[d], "COMPLETED",
                    [processing_time |-> now - task[d].start_time, completed_at |-> now], now)
       IN  /\ docs' = [docs EXCEPT ![d] = r.doc]
           /\ trace' = [trace EXCEPT ![d] = Append(@, r.doc.processing_status)]
           /\ task' = [task EXCEPT ![d].pc = "except",
                                    ![d].exc = Exc("TypeError", "not JSON serializable")]
    /\ UNCHANGED <<s3, caller, last, now>>

\* lines 214-220
Complete(d) ==
    /\ task[d].pc = "complete"
    /\ LET r == update_processing_status(docs[d], "COMPLETED",
                    [processing_time |-> now - task[d].start_time, completed_at |-> now], now)
       IN  /\ docs' = [docs EXCEPT ![d] = r.doc]
           /\ trace' = [trace EXCEPT ![d] = Append(@, r.doc.processing_status)]
           /\ task' = [task EXCEPT ![d].pc = "done", ![d].times.ended = now,
                                    ![d].stages = Append(@, "finalize")]
           /\ caller' = [caller EXCEPT ![d] =
                  IF @.state = "awaiting"
                  THEN [state |-> "returned", status |-> r.doc.processing_status, exc |-> NoExc]
                  ELSE @]
    /\ UNCHANGED <<s3, last, now>>

\* the except clause marks the document FAILED without the error
Fail_unrecorded(d) ==
    /\ task[d].pc = "except"
    /\ LET r == update_processing_status(docs[d], "FAILED", EmptyDict, now)
       IN  /\ docs' = [docs EXCEPT ![d] = r.doc]
           /\ trace' = [trace EXCEPT ![d] = Append(@, r.doc.processing_status)]
           /\ task' = [task EXCEPT ![d].pc = "done", ![d].times.ended = now,
                                    ![d].stages = Append(@, "finalize")]
           /\ caller' = caller
    /\ UNCHANGED <<s3, last, now>>

\* the except clause records the failure and runs the pipeline again
Fail_and_retry(d) ==
    /\ task[d].pc = "except"
    /\ LET r == update_processing_status(docs[d], "FAILED",
                    [error |-> task[d].exc.msg, error_type |-> task[d].exc.type], now)
       IN  /\ docs' = [docs EXCEPT ![d] = r.doc]
           /\ trace' = [trace EXCEPT ![d] = Append(@, r.doc.processing_status)]
           /\ task' = [task EXCEPT ![d].pc = "classify"]
           /\ caller' = caller
    /\ UNCHANGED <<s3, last, now>>

\* lines 231-237: the except clause, ending in raise
Fail(d) ==
    /\ task[d].pc = "except"
    /\ LET r == update_processing_status(docs[d], "FAILED",
                    [error |-> task[d].exc.msg, error_type |-> task[d].exc.type], now)
       IN  /\ docs' = [docs EXCEPT ![d] = r.doc]
           /\ trace' = [trace EXCEPT ![d] = Append(@, r.doc.processing_status)]
           /\ task' = [task EXCEPT ![d].pc = "done", ![d].times.ended = now,
                                    ![d].stages = Append(@, "finalize")]
           /\ caller' = [caller EXCEPT ![d] =
                  IF @.state = "awaiting"
                  THEN [state |-> "http500", status |-> None, exc |-> task[d].exc]
                  ELSE @]
    /\ UNCHANGED <<s3, last, now>>

\* the clock moves on
Tick ==
    /\ now < MaxClock
    /\ now' = now + 1
    /\ UNCHANGED <<docs, s3, task, caller, trace, last>>

Reports(d, page_reports) == [1 .. Len(s3[docs[d].storage_path].pages) -> page_reports]

\* any step of the pipeline of document d
PipelineStep(d) ==
    \/ StartProcessing(d)
    \/ \E get_ok \in BOOLEAN, prediction \in Predictions : Classify(d, get_ok, prediction)
    \/ /\ task[d].pc = "recognize"
       /\ \E reports \in Reports(d, PageReports), elapsed \in ElapsedInputs :
              Recognize(d, reports, elapsed)
    \/ ExtractFields(d)
    \/ StoreResults(d)
    \/ Complete(d)
    \/ Fail(d)

Init ==
    /\ docs = <<>>
    /\ s3 = EmptyDict
    /\ task = <<>>
    /\ caller = <<>>
    /\ trace = <<>>
    /\ last = NoCall
    /\ now = 0

\* one upload and its pipeline
Next ==
    \/ \E content \in UploadContents, put_ok \in BOOLEAN : HandleUpload(1, content, put_ok)
    \/ \E d \in DOMAIN docs : StartProcessing(d)
    \/ \E d \in DOMAIN docs, get_ok \in BOOLEAN, prediction \in Predictions :
           Classify(d, get_ok, prediction)
    \/ \E d \in DOMAIN docs :
           /\ task[d].pc = "recognize"
           /\ \E reports \in Reports(d, PageReports), elapsed \in ElapsedInputs :
                  Recognize(d, reports, elapsed)
    \/ \E d \in DOMAIN docs : ExtractFields(d)
    \/ \E d \in DOMAIN docs : StoreResults(d)
    \/ \E d \in DOMAIN docs : Complete(d)
    \/ \E d \in DOMAIN docs : Fail(d)
    \/ Tick

Spec == Init /\ [][Next]_vars

LivePredictions ==
    { [ok |-> TRUE, probs |-> <<70, 10, 10, 5, 5>>],
      [ok |-> TRUE, probs |-> <<85, 15, 0, 0, 0>>] }
LivePageReports ==
    { [ok |-> TRUE, rows |-> <<[conf |-> 60, text |-> W_ACME]>>],
      [ok |-> FALSE, rows |-> <<>>] }

\* pytesseract.image_to_data is called without a timeout (ocr_service.py:189-193;
\* the 'timeout' entry of ocr_config is not passed on): the engine may never
\* answer, and the run then stays inside process_document.
EngineNeverReturns(d) ==
    /\ task[d].pc = "recognize"
    /\ task' = [task EXCEPT ![d].pc = "in_engine", ![d].stages = Append(@, "recognize")]
    /\ UNCHANGED <<docs, s3, caller, trace, last, now>>

\* One upload and its pipeline, with an engine that may hang.  The worker keeps
\* running the pipeline as long as it has a step to take.
LiveStep(d) ==
    \/ StartProcessing(d)
    \/ \E get_ok \in BOOLEAN, prediction \in LivePredictions : Classify(d, get_ok, prediction)
    \/ /\ task[d].pc = "recognize"
       /\ \E reports \in Reports(d, LivePageReports), elapsed \in ElapsedInputs :
              Recognize(d, reports, elapsed)
    \/ ExtractFields(d)
    \/ StoreResults(d)
    \/ Complete(d)
    \/ Fail(d)

NextLive ==
    \/ \E content \in {PDF_TEXT, PDF_NO_TEXT_LAYER} : HandleUpload(1, content, TRUE)
    \/ \E d \in DOMAIN docs : StartProcessing(d)
    \/ \E d \in DOMAIN docs, get_ok \in BOOLEAN, prediction \in LivePredictions :
           Classify(d, get_ok, prediction)
    \/ \E d \in DOMAIN docs :
           /\ task[d].pc = "recognize"
           /\ \E reports \in Reports(d, LivePageReports), elapsed \in ElapsedInputs :
                  Recognize(d, reports, elapsed)
    \/ \E d \in DOMAIN docs : ExtractFields(d)
    \/ \E d \in DOMAIN docs : StoreResults(d)
    \/ \E d \in DOMAIN docs : Complete(d)
    \/ \E d \in DOMAIN docs : Fail(d)
    \/ \E d \in DOMAIN docs : EngineNeverReturns(d)
    \/ Tick

SpecLive == Init /\ [][NextLive]_vars /\ WF_vars(\E d \in DOMAIN docs : LiveStep(d))

\* Uploads arriving while earlier pipelines are still running: up to MaxDocs
\* documents, each pipeline taking its steps in any order with the others.
ConcurrentContents == {PDF_TEXT, PDF_NO_TEXT_LAYER}
ConcurrentPredictions ==
    { [ok |-> TRUE, probs |-> <<70, 10, 10, 5, 5>>],
      [ok |-> TRUE, probs |-> <<85, 15, 0, 0, 0>>] }
ConcurrentPageReports ==
    { [ok |-> TRUE, rows |-> <<[conf |-> 60, text |-> W_ACME]>>] }

NextConcurrent ==
    \/ \E content \in ConcurrentContents : HandleUpload(MaxDocs, content, TRUE)
    \/ \E d \in DOMAIN docs : StartProcessing(d)
    \/ \E d \in DOMAIN docs, get_ok \in BOOLEAN, prediction \in ConcurrentPredictions :
           Classify(d, get_ok, prediction)
    \/ \E d \in DOMAIN docs :
           /\ task[d].pc = "recognize"
           /\ \E reports \in Reports(d, ConcurrentPageReports), elapsed \in ElapsedInputs :
                  Recognize(d, reports, elapsed)
    \/ \E d \in DOMAIN docs : ExtractFields(d)
    \/ \E d \in DOMAIN docs : StoreResults(d)
    \/ \E d \in DOMAIN docs : Complete(d)
    \/ \E d \in DOMAIN docs : Fail(d)
    \/ Tick

SpecConcurrent == Init /\ [][NextConcurrent]_vars

\* ------------------------------------------------- calls on one Document
\* A Document constructed by a caller of the package and the methods of the
\* model and of the services called on it directly, in any order (as the
\* tests do).
Called(op, d, arg, exc) == [op |-> op, doc |-> d, arg |-> arg, exc |-> exc, before |-> docs[d]]

StatusInputs == Range(PROCESSING_STATUSES) \cup {"DONE", "pending"}
ResultDataInputs == {EmptyDict, [note |-> "manual"]}
TypeInputs == {"ISO_APPLICATION", "INVOICE"}
OcrPayloads ==
    { [text |-> W_ACME, confidence |-> Num(60), processing_time |-> 2],
      [text |-> W_ACME, processing_time |-> 2],
      [confidence |-> Num(60), processing_time |-> 2],
      [text |-> W_ACME, confidence |-> Num(60)],
      EmptyDict }

CallUploadToStorage(d, content, put_ok) ==
    /\ LET r == upload_to_storage(docs[d], put_ok, now)
       IN  /\ docs' = [docs EXCEPT ![d] = r.doc]
           /\ s3' = IF r.exc = NoExc THEN (r.doc.storage_path :> content) @@ s3 ELSE s3
           /\ last' = Called("upload_to_storage", d, put_ok, r.exc)
    /\ UNCHANGED <<task, caller, trace, now>>

CallUpdateProcessingStatus(d, status, result_data) ==
    /\ LET r == update_processing_status(docs[d], status, result_data, now)
       IN  /\ docs' = [docs EXCEPT ![d] = r.doc]
           /\ last' = Called("update_processing_status", d,
                             [status |-> status, result_data |-> result_data], r.exc)
    /\ UNCHANGED <<s3, task, caller, trace, now>>

CallSetClassification(d, document_type, classification_metadata) ==
    /\ LET r == set_classification(docs[d], document_type, classification_metadata, now)
       IN  /\ docs' = [docs EXCEPT ![d] = r.doc]
           /\ last' = Called("set_classification", d, document_type, r.exc)
    /\ UNCHANGED <<s3, task, caller, trace, now>>

CallStoreOcrResult(d, ocr_data) ==
    /\ LET r == store_ocr_result(docs[d], ocr_data, now)
       IN  /\ docs' = [docs EXCEPT ![d] = r.doc]
           /\ last' = Called("store_ocr_result", d, ocr_data, r.exc)
    /\ UNCHANGED <<s3, task, caller, trace, now>>

CallClassifyDocument(d, get_ok, prediction) ==
    /\ LET r == classify_document(docs[d], s3, get_ok, prediction, now)
       IN  /\ docs' = [docs EXCEPT ![d] = r.doc]
           /\ last' = Called("classify_document", d,
                             [predicted_type |-> r.predicted_type, confidence |-> r.confidence,
                              prediction |-> prediction, get_ok |-> get_ok,
                              temp_files |-> extract_text(docs[d], s3, get_ok).temp_files],
                             r.exc)
    /\ UNCHANGED <<s3, task, caller, trace, now>>

\* process_document called with the document's bytes, as the tests do
CallProcessDocument(d, content, reports, elapsed) ==
    /\ LET r == process_document(docs[d], content, reports, elapsed, now)
       IN  /\ docs' = [docs EXCEPT ![d] = r.doc]
           /\ last' = Called("process_document", d, r.ocr_results, r.exc)
    /\ UNCHANGED <<s3, task, caller, trace, now>>

InitCalls ==
    /\ docs = <<Document__init__(1, "application/pdf", 0)>>
    /\ s3 = EmptyDict
    /\ task = <<NewTask("not_started", PDF_TEXT, 0)>>
    /\ caller = <<[state |-> "constructed", status |-> None, exc |-> NoExc]>>
    /\ trace = << <<"PENDING">> >>
    /\ last = NoCall
    /\ now = 0

NextCalls ==
    \/ \E d \in DOMAIN docs, put_ok \in BOOLEAN : CallUploadToStorage(d, PDF_TEXT, put_ok)
    \/ \E d \in DOMAIN docs, status \in StatusInputs, result_data \in ResultDataInputs :
           CallUpdateProcessingStatus(d, status, result_data)
    \/ \E d \in DOMAIN docs, document_type \in TypeInputs :
           CallSetClassification(d, document_type, ClassificationMetadata(92))
    \/ \E d \in DOMAIN docs, ocr_data \in OcrPayloads : CallStoreOcrResult(d, ocr_data)
    \/ \E d \in DOMAIN docs, get_ok \in BOOLEAN, prediction \in Predictions :
           CallClassifyDocument(d, get_ok, prediction)
    \/ \E d \in DOMAIN docs, content \in {PDF_TEXT, PDF_CORRUPT},
          reports \in [1 .. 1 -> PageReports], elapsed \in ElapsedInputs :
           CallProcessDocument(d, content, reports, elapsed)
    \/ Tick

SpecCalls == InitCalls /\ [][NextCalls]_vars

\* uploads of every kind of content, each followed by classify_document
ClassifyContents ==
    {PDF_TEXT, PDF_NO_TEXT_LAYER, PDF_TWO_BLANK_PAGES, PDF_CORRUPT, IMAGE_PNG, TEXT_PLAIN}

NextClassify ==
    \/ \E d \in DOMAIN docs, content \in ClassifyContents, put_ok \in BOOLEAN :
           CallUploadToStorage(d, content, put_ok)
    \/ \E d \in DOMAIN docs, get_ok \in BOOLEAN, prediction \in Predictions :
           CallClassifyDocument(d, get_ok, prediction)
    \/ Tick

SpecClassify == InitCalls /\ [][NextClassify]_vars

\* ---------------------------------------- the functions of OCRProcessor
\* validate_results and extract_fields applied to results drawn from bounded
\* sets; `last` holds the application and what it gave.
Text(n) == [i \in 1 .. n |-> "x"]
TEXT_BALANCE == <<"B","a","l","a","n","c","e",":",SP,"$","1","0",".","0","0">>

\* the confidences are binary fractions, so that 100 - confidence is exact in
\* floating point as well
ValidationInputs ==
    [ text            : {Text(49), Text(50)},
      confidence      : {Num(98), Num(99), Rat(995, 10), Rat(12799, 128), Num(100)},
      processing_time : {2, 300, 301} ]

\* "Business Name: Acme Corp\nEIN: 12-3456789" (tests/test_ocr.py, sample text)
TEXT_SCENARIO_A == Join(<<NL>>, <<TEXT_ISO \o <<SP>> \o W_CORP, TEXT_P2>>)

FieldTexts ==
    { <<>>, W_ACME, TEXT_ISO, TEXT_SCENARIO_A,
      Join(<<NL>>, <<TEXT_ISO, TEXT_P2>>),
      Join(<<NL>>, <<W_BUSINESS, W_NAME, W_ACME>>),
      Join(<<NL>>, <<TEXT_P2, TEXT_BALANCE>>) }
FieldInputs ==
    [ text            : FieldTexts,
      confidence      : {Num(60), Rat(200, 3), Num(92), Rat(995, 10), Num(100)},
      processing_time : {2} ]
FieldTypeInputs == Range(DOCUMENT_TYPES) \cup {"INVOICE"}

ApplyValidateResults(ocr_results) ==
    /\ last' = [op |-> "validate_results", doc |-> 0,
                arg |-> [ocr_results |-> ocr_results, result |-> validate_results(ocr_results)],
                exc |-> NoExc, before |-> EmptyDict]
    /\ UNCHANGED <<docs, s3, task, caller, trace, now>>

ApplyExtractFields(document_type, ocr_results) ==
    /\ LET r == extract_fields(document_type, ocr_results)
       IN  last' = [op |-> "extract_fields", doc |-> 0,
                    arg |-> [document_type |-> document_type, ocr_results |-> ocr_results,
                             fields |-> r.fields],
                    exc |-> r.exc, before |-> EmptyDict]
    /\ UNCHANGED <<docs, s3, task, caller, trace, now>>

NextFunctions ==
    \/ \E ocr_results \in ValidationInputs : ApplyValidateResults(ocr_results)
    \/ \E document_type \in FieldTypeInputs, ocr_results \in FieldInputs :
           ApplyExtractFields(document_type, ocr_results)

SpecFunctions == Init /\ [][NextFunctions]_vars

\* ================================================================ claims
Terminal == {"COMPLETED", "FAILED"}
IsCall(op) == last.op = op

\* C1: update_processing_status with a status outside {PENDING, PROCESSING,
\* COMPLETED, FAILED} raises and leaves the Document as it was before the call:
\* processing_status, metadata and updated_at included.
C1_InvalidStatusRejected ==
    (IsCall("update_processing_status")
        /\ last.arg.status \notin {"PENDING", "PROCESSING", "COMPLETED", "FAILED"})
    => /\ last.exc # NoExc
       /\ docs[last.doc] = last.before

\* an invalid status with a non-empty result-data map, after the clock has moved
\* on, on a document that had reached COMPLETED
C1_Witness ==
    /\ IsCall("update_processing_status")
    /\ last.arg.status = "DONE"
    /\ last.arg.result_data # EmptyDict
    /\ last.exc.type = "ValueError"
    /\ last.before.processing_status = "COMPLETED"
    /\ "note" \notin DOMAIN last.before.metadata
    /\ now > last.before.updated_at

\* C2: COMPLETED and FAILED are terminal: no accepted call of
\* update_processing_status changes the processing_status of a Document that is
\* COMPLETED or FAILED.
C2_TerminalStatusIsFinal ==
    (IsCall("update_processing_status")
        /\ last.exc = NoExc
        /\ last.before.processing_status \in Terminal)
    => docs[last.doc].processing_status = last.before.processing_status

\* C3: in every pipeline run the processing_status values written are PENDING,
\* then PROCESSING, then exactly one of COMPLETED and FAILED; a run that has
\* ended has written all three.
C3_StatusSequence ==
    \A d \in DOMAIN docs :
        /\ Len(trace[d]) <= 3
        /\ trace[d][1] = "PENDING"
        /\ Len(trace[d]) >= 2 => trace[d][2] = "PROCESSING"
        /\ Len(trace[d]) = 3 => trace[d][3] \in Terminal
        /\ docs[d].processing_status = trace[d][Len(trace[d])]
        /\ task[d].pc = "done" <=> Len(trace[d]) = 3

C3_Witness ==
    \E d \in DOMAIN docs :
        /\ task[d].pc = "done"
        /\ trace[d] = <<"PENDING", "PROCESSING", "COMPLETED">>
        /\ docs[d].document_type = "ISO_APPLICATION"

\* C4: after classify_document has returned on a document with no prior
\* classification, classification_result and document_type are the returned
\* label if the returned confidence is >= 0.85, and both are still unset (the
\* Document untouched) if it is lower.
C4_CommitIffThreshold ==
    (IsCall("classify_document")
        /\ last.exc = NoExc
        /\ last.before.classification_result = None
        /\ last.before.document_type = None)
    => LET doc == docs[last.doc]
       IN  /\ last.arg.predicted_type \in Range(DOCUMENT_TYPES)
           /\ last.arg.confidence >= 85
                => /\ doc.classification_result = last.arg.predicted_type
                   /\ doc.document_type = last.arg.predicted_type
           /\ last.arg.confidence < 85
                => /\ doc.classification_result = None
                   /\ doc.document_type = None
                   /\ doc = last.before

\* the bound itself: a confidence of exactly 0.85 commits
C4_Witness ==
    /\ IsCall("classify_document")
    /\ last.exc = NoExc
    /\ last.before.classification_result = None
    /\ last.arg.confidence = 85
    /\ docs[last.doc].classification_result = "ISO_APPLICATION"
    /\ docs[last.doc].document_type = "ISO_APPLICATION"

\* C5: a run whose classification confidence is below 0.85 runs neither
\* recognition nor field extraction, raises nothing, and ends COMPLETED with
\* document_type unset, ocr_result empty and neither extracted_fields nor an
\* error in metadata.
C5_LowConfidenceCompletes ==
    \A d \in DOMAIN docs :
        (task[d].confidence >= 0 /\ task[d].confidence < 85)
        => /\ task[d].pc \in {"complete", "done"}
           /\ task[d].exc = NoExc
           /\ task[d].ocr_results = EmptyDict
           /\ task[d].extracted_fields = EmptyDict
           /\ docs[d].document_type = None
           /\ docs[d].classification_result = None
           /\ docs[d].ocr_result = EmptyDict
           /\ DOMAIN docs[d].metadata \cap
                  {"extracted_fields", "ocr_processing", "error", "error_type"} = {}
           /\ docs[d].processing_status # "FAILED"
           /\ task[d].pc = "done" => docs[d].processing_status = "COMPLETED"

C5_Witness ==
    \E d \in DOMAIN docs :
        /\ task[d].pc = "done"
        /\ task[d].confidence = 70
        /\ docs[d].processing_status = "COMPLETED"
        /\ "completed_at" \in DOMAIN docs[d].metadata

\* C6: whenever a stage of the pipeline fails, the run goes to its except
\* clause and ends with the document FAILED and the failure's kind and message
\* in metadata.
C6_FailureRecorded ==
    \A d \in DOMAIN docs :
        task[d].exc # NoExc
        => /\ task[d].pc \in {"except", "done"}
           /\ task[d].pc = "done"
                => /\ docs[d].processing_status = "FAILED"
                   /\ {"error", "error_type"} \subseteq DOMAIN docs[d].metadata
                   /\ docs[d].metadata.error = task[d].exc.msg
                   /\ docs[d].metadata.error_type = task[d].exc.type

\* a failure of the recognition stage, after the classification was committed
C6_Witness ==
    \E d \in DOMAIN docs :
        /\ task[d].pc = "done"
        /\ task[d].exc.type = "TesseractError"
        /\ docs[d].processing_status = "FAILED"
        /\ docs[d].metadata.error_type = "TesseractError"

RunAlone(id, tk) ==
    LET d0 == upload_to_storage(Document__init__(id, tk.content.mime, tk.created),
                                TRUE, tk.created).doc
        bucket == (d0.storage_path :> tk.content)
        d1 == update_processing_status(d0, "PROCESSING", [started_at |-> tk.start_time],
                                       tk.start_time).doc
        c == classify_document(d1, bucket, tk.inputs.get_ok, tk.inputs.prediction,
                               tk.times.classified)
        failed(doc, e) ==
            update_processing_status(doc, "FAILED", [error |-> e.msg, error_type |-> e.type],
                                     tk.times.ended).doc
        completed(doc) ==
            update_processing_status(doc, "COMPLETED",
                [processing_time |-> tk.times.ended - tk.start_time,
                 completed_at |-> tk.times.ended], tk.times.ended).doc
    IN  IF c.exc # NoExc THEN failed(c.doc, c.exc)
        ELSE IF c.confidence < 85 THEN completed(c.doc)
        ELSE LET r == process_document(c.doc, tk.content, tk.inputs.reports,
                                       tk.inputs.elapsed, tk.times.recognized)
                 f == extract_fields(c.predicted_type, r.ocr_results)
                 st == store_ocr_result(r.doc, r.ocr_results, tk.times.stored).doc
             IN  IF r.exc # NoExc THEN failed(r.doc, r.exc)
                 ELSE IF f.exc # NoExc THEN failed(r.doc, f.exc)
                 ELSE completed([st EXCEPT !.metadata =
                                     ("extracted_fields" :> f.fields) @@ @])

\* C9: documents processed concurrently do not affect each other: a step in
\* which the pipeline of a document does not move leaves every field of that
\* document as it was, and a document whose pipeline has ended is in the state
\* it reaches when processed alone.
C9_Independent ==
    /\ [][\A d \in DOMAIN docs : task'[d] = task[d] => docs'[d] = docs[d]]_vars
    /\ [](\A d \in DOMAIN docs : task[d].pc = "done" => docs[d] = RunAlone(d, task[d]))

\* two pipelines in flight at once that end differently
C9_Witness ==
    \E d, e \in DOMAIN docs :
        /\ task[d].pc = "done" /\ task[e].pc = "done"
        /\ task[d].start_time <= task[e].start_time
        /\ task[e].start_time <= task[d].times.classified
        /\ docs[d].processing_status = "COMPLETED"
        /\ docs[d].document_type = "ISO_APPLICATION"
        /\ docs[e].processing_status = "FAILED"
        /\ task[d].content # task[e].content

\* C10: store_ocr_result with a payload missing any of text, confidence and
\* processing_time raises and leaves the Document as it was before the call.
C10_IncompletePayloadRejected ==
    (IsCall("store_ocr_result")
        /\ ~({"text", "confidence", "processing_time"} \subseteq DOMAIN last.arg))
    => /\ last.exc # NoExc
       /\ docs[last.doc] = last.before

\* a payload missing only 'confidence', on a PROCESSING document, after the
\* clock has moved on
C10_Witness ==
    /\ IsCall("store_ocr_result")
    /\ DOMAIN last.arg = {"text", "processing_time"}
    /\ last.exc.type = "ValueError"
    /\ last.before.processing_status = "PROCESSING"
    /\ last.before.ocr_result = EmptyDict
    /\ now > last.before.updated_at

\* C11: in every state Document.ocr_result is empty or carries text, confidence
\* and processing_time; when process_document has returned, Document.ocr_result
\* is the result it returned.
C11_OcrResultTriple ==
    /\ \A d \in DOMAIN docs :
           \/ docs[d].ocr_result = EmptyDict
           \/ {"text", "confidence", "processing_time"} \subseteq DOMAIN docs[d].ocr_result
    /\ (IsCall("process_document") /\ last.exc = NoExc)
           => /\ docs[last.doc].ocr_result = last.arg
              /\ {"text", "confidence", "processing_time"} \subseteq DOMAIN last.arg

\* process_document has replaced the result that store_ocr_result had stored
C11_Witness ==
    /\ IsCall("process_document")
    /\ last.exc = NoExc
    /\ last.before.ocr_result # EmptyDict
    /\ last.before.ocr_result # last.arg
    /\ docs[last.doc].ocr_result = last.arg
    /\ last.arg.confidence = Num(60)

\* C12: in every state Document.document_type is unset or one of
\* ISO_APPLICATION, BANK_STATEMENT, VOIDED_CHECK, BUSINESS_LICENSE, TAX_RETURN;
\* set_classification with any other label raises and leaves the Document
\* (document_type, classification_result, metadata, updated_at) as it was.
C12_DocumentTypeInLabelSet ==
    /\ \A d \in DOMAIN docs :
           docs[d].document_type \in
               {None, "ISO_APPLICATION", "BANK_STATEMENT", "VOIDED_CHECK", "BUSINESS_LICENSE",
                "TAX_RETURN"}
    /\ (IsCall("set_classification")
            /\ last.arg \notin {"ISO_APPLICATION", "BANK_STATEMENT", "VOIDED_CHECK",
                                "BUSINESS_LICENSE", "TAX_RETURN"})
           => /\ last.exc # NoExc
              /\ docs[last.doc] = last.before

\* an unknown label on a document that was classified before, after the clock
\* has moved on
C12_Witness ==
    /\ IsCall("set_classification")
    /\ last.arg = "INVOICE"
    /\ last.exc.type = "ValueError"
    /\ last.before.document_type = "ISO_APPLICATION"
    /\ docs[last.doc].document_type = "ISO_APPLICATION"
    /\ now > last.before.updated_at

\* C13: across upload_to_storage, update_processing_status, set_classification
\* and store_ocr_result calls, accepted or rejected, updated_at never decreases
\* and is never earlier than created_at.
C13_UpdatedAtMonotone ==
    /\ [][\A d \in DOMAIN docs : docs'[d].updated_at >= docs[d].updated_at]_vars
    /\ [](\A d \in DOMAIN docs : docs[d].updated_at >= docs[d].created_at)

\* a rejected call after an accepted one that had advanced updated_at, with the
\* clock further on
C13_Witness ==
    /\ last.op \in {"update_processing_status", "set_classification", "store_ocr_result",
                    "upload_to_storage"}
    /\ last.exc # NoExc
    /\ last.before.updated_at > last.before.created_at
    /\ now > last.before.updated_at
    /\ docs[last.doc].updated_at = last.before.updated_at

\* C14: classify_document returns the label at a position of the largest
\* probability of the model's vector and that probability as confidence; the
\* label is one of the five document types and the confidence is in [0, 1].
C14_ArgMaxLabel ==
    (IsCall("classify_document") /\ last.exc = NoExc)
    => LET probs == last.arg.prediction.probs
           labels == <<"ISO_APPLICATION", "BANK_STATEMENT", "VOIDED_CHECK", "BUSINESS_LICENSE",
                       "TAX_RETURN">>
       IN  /\ \E i \in DOMAIN probs :
                  /\ \A j \in DOMAIN probs : probs[j] <= probs[i]
                  /\ last.arg.predicted_type = labels[i]
                  /\ last.arg.confidence = probs[i]
           /\ last.arg.predicted_type \in Range(labels)
           /\ last.arg.confidence >= 0 /\ last.arg.confidence <= 100

\* the largest probability is not at the first position
C14_Witness ==
    /\ IsCall("classify_document")
    /\ last.exc = NoExc
    /\ last.arg.prediction.probs = <<4, 4, 92, 0, 0>>
    /\ last.arg.predicted_type = "VOIDED_CHECK"
    /\ last.arg.confidence = 92
    /\ docs[last.doc].document_type = "VOIDED_CHECK"

\* C15: text extraction never succeeds with empty or blank text: whenever the
\* classifier has gone on to classify a document, the text extracted from it
\* has at least one character that is not white space.
C15_NoEmptyExtraction ==
    \A d \in DOMAIN docs :
        task[d].confidence >= 0
        => LET ex == extract_text(docs[d], s3, TRUE)
           IN  /\ ex.exc = NoExc
               /\ \E i \in DOMAIN ex.text : ex.text[i] \notin {" ", "\n", "\t", "\r"}

\* The rows of a page report with text that is not blank and confidence > 0,
\* and the page confidence C16 and C17 state: their mean, 0 when there is none.
QualifyingRows(rows) ==
    SelectSeq(rows, LAMBDA row : (\E i \in DOMAIN row.text : row.text[i] # " ") /\ row.conf > 0)
StatedPageConfidence(report) ==
    LET kept == QualifyingRows(report.rows)
    IN  IF kept = <<>> THEN Num(0)
        ELSE RatDivInt(RatSum([i \in DOMAIN kept |-> Num(kept[i].conf)]), Len(kept))

\* C16: for a one-page document whose page the engine has reported, recognition
\* raises nothing, the page text is made of exactly the rows with non-empty
\* text and confidence > 0, and the page confidence is the mean of their
\* confidences, 0 when no row is kept.
C16_PageConfidence ==
    \A d \in DOMAIN docs :
        (Len(task[d].inputs.reports) = 1 /\ task[d].inputs.reports[1].ok)
        => LET kept == QualifyingRows(task[d].inputs.reports[1].rows)
           IN  /\ task[d].exc.type # "UnboundLocalError"
               /\ task[d].ocr_results # EmptyDict
               /\ task[d].ocr_results.text = Join(<<"\n">>, [i \in DOMAIN kept |-> kept[i].text])
               /\ task[d].ocr_results.confidence = StatedPageConfidence(task[d].inputs.reports[1])

\* C17: the confidence of a recognition result is the mean of the page
\* confidences over all pages processed, a page without a qualifying word
\* counting as 0, and lies in [0, 100].
C17_OverallConfidence ==
    \A d \in DOMAIN docs :
        task[d].ocr_results # EmptyDict
        => LET reports == task[d].inputs.reports
               pages == [i \in DOMAIN reports |-> StatedPageConfidence(reports[i])]
               conf == task[d].ocr_results.confidence
           IN  /\ conf = RatDivInt(RatSum(pages), Len(pages))
               /\ conf.n >= 0 /\ conf.n <= 100 * conf.d

\* C18: validate_results passes exactly when confidence >= 99.0 and
\* processing_time <= 300 and text_length >= 50 and error_rate <= 1.0, where
\* error_rate = 100 - confidence.
C18_ValidationRule ==
    IsCall("validate_results")
    => LET r == last.arg.ocr_results
           error_rate == RatSub(Num(100), r.confidence)
       IN  last.arg.result.ok
           <=> /\ RatLeq(Num(99), r.confidence)
               /\ r.processing_time <= 300
               /\ Len(r.text) >= 50
               /\ RatLeq(error_rate, Num(1))

\* C19: a failed validation does not abort the pipeline: a run whose
\* recognition result fails validation (confidence 60) and that raised nothing
\* ends COMPLETED, with that result stored and a validation-failed flag in
\* Document.metadata besides the entries of the other stages.
C19_ValidationFailureFlagged ==
    \A d \in DOMAIN docs :
        (task[d].pc = "done"
            /\ task[d].exc = NoExc
            /\ task[d].ocr_results # EmptyDict
            /\ ~validate_results(task[d].ocr_results).ok)
        => /\ docs[d].processing_status = "COMPLETED"
           /\ docs[d].ocr_result = task[d].ocr_results
           /\ DOMAIN docs[d].metadata \
                  {"started_at", "classification", "ocr_processing", "extracted_fields",
                   "processing_time", "completed_at"} # {}

\* The field names of the schema of a document type, as the claims state them
SchemaFields(document_type) ==
    CASE document_type = "ISO_APPLICATION" ->
             {"business_name", "ein", "address", "phone", "email"}
      [] document_type = "BANK_STATEMENT" -> {"account_number", "balance", "period"}
      [] OTHER -> {}

\* C20: for a document type with a schema and any text, extract_fields raises
\* nothing, returns only field names of that type's schema, and returns a
\* field exactly when its pattern matches the text.
C20_FieldsWithinSchema ==
    (IsCall("extract_fields")
        /\ last.arg.document_type \in {"ISO_APPLICATION", "BANK_STATEMENT"})
    => LET schema == SchemaFields(last.arg.document_type)
           text == last.arg.ocr_results.text
       IN  /\ last.exc = NoExc
           /\ DOMAIN last.arg.fields \subseteq schema
           /\ \A f \in schema :
                  f \in DOMAIN last.arg.fields
                  <=> re_search(field_patterns[last.arg.document_type][f], text).matched

\* a text with an EIN and a balance, read under the ISO application schema:
\* the EIN alone is returned
C20_Witness ==
    /\ IsCall("extract_fields")
    /\ last.arg.document_type = "ISO_APPLICATION"
    /\ last.arg.ocr_results.text = Join(<<"\n">>, <<TEXT_P2, TEXT_BALANCE>>)
    /\ last.exc = NoExc
    /\ DOMAIN last.arg.fields = {"ein"}
    /\ last.arg.fields.ein.value = <<"1","2","-","3","4","5","6","7","8","9">>

\* C21: every field confidence that extract_fields emits, after the penalties
\* and the rounding to 2 decimals, is at most the base OCR confidence.
C21_FieldConfidenceBounded ==
    (IsCall("extract_fields") /\ last.exc = NoExc)
    => \A f \in DOMAIN last.arg.fields :
           LET c == last.arg.fields[f].confidence
               base == last.arg.ocr_results.confidence
           IN  c.n * base.d <= base.n * c.d

\* C22: when the recognized tokens of a one-page document read 'Business Name:
\* Acme Corp' on one line and 'EIN: 12-3456789' on the next, the fields
\* extracted for ISO_APPLICATION from the text process_document returns are
\* business_name = 'Acme Corp' and ein = '12-3456789'.
C22_ScenarioA ==
    \A d \in DOMAIN docs :
        (task[d].inputs.reports = <<REPORT_SCENARIO_A>>
            /\ task[d].doc_type = "ISO_APPLICATION"
            /\ task[d].pc \in {"store_results", "complete", "done"}
            /\ task[d].exc = NoExc)
        => LET fields == task[d].extracted_fields
           IN  /\ {"business_name", "ein"} \subseteq DOMAIN fields
               /\ fields.business_name.value = <<"A","c","m","e"," ","C","o","r","p">>
               /\ fields.ein.value = <<"1","2","-","3","4","5","6","7","8","9">>

\* The field confidence as C23 states it: the base confidence times 0.9 for a
\* value of fewer than 3 characters, times 0.95 for a value with a digit, times
\* 0.98 for a value with a character that is neither alphanumeric nor a space,
\* rounded to 2 decimals.
StatedFieldConfidence(value, base) ==
    LET short == Len(value) < 3
        digit == \E i \in DOMAIN value :
                     value[i] \in {"0", "1", "2", "3", "4", "5", "6", "7", "8", "9"}
        special == \E i \in DOMAIN value : ~IsAlnum(value[i]) /\ value[i] # " "
        m1 == IF short THEN Rat(9, 10) ELSE Num(1)
        m2 == IF digit THEN Rat(95, 100) ELSE Num(1)
        m3 == IF special THEN Rat(98, 100) ELSE Num(1)
    IN  Round2(RatMul(RatMul(RatMul(base, m1), m2), m3))

\* C23: the confidence of every field extract_fields emits is the base
\* confidence with the three penalties applied in sequence and rounded to 2
\* decimals; a value of letters and spaces of length >= 3 keeps the base
\* confidence.
C23_PenaltyRule ==
    (IsCall("extract_fields") /\ last.exc = NoExc)
    => \A f \in DOMAIN last.arg.fields :
           last.arg.fields[f].confidence =
               StatedFieldConfidence(last.arg.fields[f].value, last.arg.ocr_results.confidence)

\* Whether the stages entered follow the order given by rank
InOrder(stages, rank) ==
    \A i \in 1 .. Len(stages) - 1 : rank[stages[i]] < rank[stages[i + 1]]

\* What C24 says of the commits: the classification is on the Document when
\* recognition starts, the OCR result when field extraction starts, and the
\* terminal status is the last thing a run writes.
CommittedBeforeNext(d) ==
    /\ task[d].pc = "recognize"
           => /\ docs[d].classification_result = task[d].doc_type
              /\ docs[d].document_type = task[d].doc_type
              /\ "classification" \in DOMAIN docs[d].metadata
    /\ task[d].pc = "extract_fields"
           => /\ docs[d].ocr_result # EmptyDict
              /\ docs[d].ocr_result = task[d].ocr_results
    /\ docs[d].processing_status \in {"COMPLETED", "FAILED"}
           <=> (task[d].pc = "done" /\ task[d].stages[Len(task[d].stages)] = "finalize")

C25_FailureAborts ==
    /\ [](\A d \in DOMAIN docs :
             task[d].exc # NoExc
             => /\ task[d].pc \in {"except", "done"}
                /\ "COMPLETED" \notin Range(trace[d]))
    /\ [][\A d \in DOMAIN docs :
             task[d].exc # NoExc
             => /\ task'[d].stages \in {task[d].stages, Append(task[d].stages, "finalize")}
                /\ \/ docs'[d] = docs[d]
                   \/ docs'[d] = [docs[d] EXCEPT
                          !.processing_status = "FAILED",
                          !.metadata = [error |-> task[d].exc.msg,
                                        error_type |-> task[d].exc.type] @@ @,
                          !.updated_at = now]]_vars

\* a run whose recognition failed: no field extraction, FAILED, the committed
\* classification still on the Document
C25_Witness ==
    \E d \in DOMAIN docs :
        /\ task[d].stages = <<"extract_text", "classify", "recognize", "finalize">>
        /\ task[d].exc # NoExc
        /\ docs[d].processing_status = "FAILED"
        /\ docs[d].classification_result # None
        /\ "extracted_fields" \notin DOMAIN docs[d].metadata

\* C26: if the engine invocation fails on any page of a document, a later page
\* of a multi-page document included, process_document raises, returns and
\* stores no result (ocr_result and metadata['ocr_processing'] stay as they
\* were, the pages already recognized are discarded), and the pipeline ends
\* with the document FAILED.
C26_EngineFailureFailsDocument ==
    \A d \in DOMAIN docs :
        (\E i \in DOMAIN task[d].inputs.reports : ~task[d].inputs.reports[i].ok)
        => /\ task[d].exc # NoExc
           /\ task[d].pc \in {"except", "done"}
           /\ task[d].ocr_results = EmptyDict
           /\ task[d].extracted_fields = EmptyDict
           /\ docs[d].ocr_result = EmptyDict
           /\ DOMAIN docs[d].metadata \cap {"ocr_processing", "extracted_fields"} = {}
           /\ docs[d].processing_status # "COMPLETED"
           /\ task[d].pc = "done" => docs[d].processing_status = "FAILED"

\* the engine recognized the first page and failed on the second
C26_Witness ==
    \E d \in DOMAIN docs :
        /\ Len(task[d].inputs.reports) = 2
        /\ task[d].inputs.reports[1] = REPORT_SCENARIO_A
        /\ ~task[d].inputs.reports[2].ok
        /\ task[d].pc = "done"
        /\ task[d].exc.type = "TesseractError"
        /\ docs[d].processing_status = "FAILED"
        /\ docs[d].ocr_result = EmptyDict

C28_EventuallyTerminal ==
    (Len(docs) >= 1 /\ docs[1].processing_status = "PROCESSING")
        ~> (Len(docs) >= 1 /\ docs[1].processing_status \in {"COMPLETED", "FAILED"})

\* C29: a document classified with confidence >= 0.85 as VOIDED_CHECK,
\* BUSINESS_LICENSE or TAX_RETURN, types without a field schema, ends FAILED
\* once recognition has succeeded, because extract_fields rejects the type; the
\* FAILED document carries the committed document_type and
\* classification_result and the stored ocr_result, and has no
\* extracted_fields in metadata.
C29_NoSchemaEndsFailed ==
    \A d \in DOMAIN docs :
        (task[d].doc_type \in {"VOIDED_CHECK", "BUSINESS_LICENSE", "TAX_RETURN"}
            /\ task[d].confidence >= 85
            /\ task[d].ocr_results # EmptyDict)
        => /\ task[d].pc \in {"extract_fields", "except", "done"}
           /\ docs[d].processing_status # "COMPLETED"
           /\ task[d].pc = "done"
                => /\ docs[d].processing_status = "FAILED"
                   /\ docs[d].metadata.error_type = "ValueError"
                   /\ docs[d].metadata.error = "Unsupported document type"
                   /\ docs[d].document_type = task[d].doc_type
                   /\ docs[d].classification_result = task[d].doc_type
                   /\ docs[d].ocr_result = task[d].ocr_results
                   /\ "ocr_processing" \in DOMAIN docs[d].metadata
                   /\ "extracted_fields" \notin DOMAIN docs[d].metadata

\* a voided check, recognized with confidence 96, FAILED
C29_Witness ==
    \E d \in DOMAIN docs :
        /\ task[d].pc = "done"
        /\ docs[d].document_type = "VOIDED_CHECK"
        /\ docs[d].processing_status = "FAILED"
        /\ docs[d].ocr_result # EmptyDict
        /\ docs[d].ocr_result.confidence = Num(96)
        /\ task[d].stages[Len(task[d].stages) - 1] = "extract_fields"

\* C30: every temporary file created by extract_text is deleted by the time it
\* returns or raises, on every path: after a call of classify_document none of
\* the files its text extraction created is left.
C30_NoTempFileLeft ==
    IsCall("classify_document") => last.arg.temp_files = 0

====
